---- MODULE Spec2Model ----
(***************************************************************************)
(* Recurrence expansion of the task tracker (src/src/utils.ts) and the     *)
(* callers' view of it.                                                    *)
(*                                                                         *)
(* A Date is an absolute instant, counted in whole minutes since           *)
(* 2023-12-01T00:00Z (seconds and milliseconds are dropped: every instant  *)
(* the expander builds is minute-aligned).  date-fns and the Date methods  *)
(* the code uses work on local wall-clock fields; the local zone is the    *)
(* fixed-offset zone the README names (Asia/Singapore, UTC+8, no DST).     *)
(***************************************************************************)
EXTENDS Integers, Sequences, FiniteSets, TLC

VARIABLES
    task,       \* the Task object handed to expandRecurrence (mutable, by reference)
    start,      \* window start (Date)
    end,        \* window end (Date)
    results,    \* the array expandRecurrence builds / returns
    pc,         \* position of the call: "ready", the loop labels, "returned"
    cursor,     \* the loop cursor (d, w or m in the code)
    taskAtCall, \* value of the Task object when expandRecurrence was entered
    viewDate,   \* App: the month the calendar shows (a Date)
    tasks,      \* App: the task list (useState)
    now,        \* the clock, in milliseconds since 2023-12-01T00:00Z
    query,      \* App: the search box's text
    occs,       \* App: the calendar's occurrence list as last rendered
    filtered,   \* App: the checklist as last rendered
    dialog,     \* App: the task dialog (modalOpen, editing)
    fired,      \* every reminder fired so far: the task, as it was, and the time
    nextKey     \* number of tasks created so far

expVars == <<task, start, end, results, pc, cursor, taskAtCall>>
appVars == <<viewDate, tasks, now, query, occs, filtered, dialog, fired, nextKey>>
vars == <<task, start, end, results, pc, cursor, taskAtCall,
          viewDate, tasks, now, query, occs, filtered, dialog, fired, nextKey>>

(***************************************************************************)
(* Bounds of the model.                                                    *)
(***************************************************************************)
MaxInterval == 2        \* recurrence intervals range over 1..MaxInterval
MaxWeekdays == 2        \* length of a weekly task's weekdays array
MaxMonth == 27          \* months after 2023-12 the calendar tables cover
MaxResults == 3         \* LoopSpec: results kept while a loop cannot end
MaxBack == 3            \* LoopSpec: days a cursor may run back before the window
MaxTasks == 2           \* AppSpec: length of the task list
MaxCreates == 2         \* AppSpec: tasks created with the New Task dialog
MaxTicks == 2           \* AppSpec: polling ticks
MaxNav == 1             \* AppSpec: months the calendar is moved away from today

(***************************************************************************)
(* Calendar: local wall-clock fields of an instant.                        *)
(***************************************************************************)
MinutesPerDay == 24 * 60
TzOffset == 8 * 60                 \* Asia/Singapore

\* month index mi counts months from 2023-12 (mi = 0)
YearOfMonth(mi) == 2023 + ((mi + 11) \div 12)
MonthOfYear(mi) == (mi + 11) % 12              \* 0 = January, as Date.getMonth

IsLeap(y) == (y % 4 = 0 /\ y % 100 # 0) \/ y % 400 = 0

DaysInMonth(mi) ==
    LET mo == MonthOfYear(mi) IN
    IF mo = 1 THEN (IF IsLeap(YearOfMonth(mi)) THEN 29 ELSE 28)
    ELSE IF mo \in {3, 5, 8, 10} THEN 30
    ELSE 31

\* local day number (0 = 2023-12-01) of the first day of month mi
RECURSIVE MonthStartDay(_)
MonthStartDay(mi) ==
    IF mi = 0 THEN 0
    ELSE IF mi > 0 THEN MonthStartDay(mi - 1) + DaysInMonth(mi - 1)
    ELSE MonthStartDay(mi + 1) - DaysInMonth(mi)

LocalMinutes(t) == t + TzOffset
LocalDay(t) == LocalMinutes(t) \div MinutesPerDay
MinuteOfDay(t) == LocalMinutes(t) % MinutesPerDay
getHours(t) == MinuteOfDay(t) \div 60
getMinutes(t) == MinuteOfDay(t) % 60
\* 2023-12-01 is a Friday (5)
getDay(t) == (LocalDay(t) + 5) % 7
MonthIndex(t) ==
    CHOOSE mi \in 0..MaxMonth :
        MonthStartDay(mi) <= LocalDay(t) /\ LocalDay(t) < MonthStartDay(mi + 1)
getDate(t) == LocalDay(t) - MonthStartDay(MonthIndex(t)) + 1

\* new Date(year, month, day, hours, minutes) for the month with index mi; a
\* day past the month's end rolls over into the next month, as in JavaScript
NewDate(mi, day, hours, minutes) ==
    (MonthStartDay(mi) + day - 1) * MinutesPerDay
        + hours * 60 + minutes - TzOffset

\* an ISO string is held as its UTC fields [mi, day, hh, mm]
parseISO(iso) ==
    (MonthStartDay(iso.mi) + iso.day - 1) * MinutesPerDay
        + iso.hh * 60 + iso.mm

(***************************************************************************)
(* date-fns                                                                *)
(***************************************************************************)
isBefore(a, b) == a < b
isAfter(a, b) == a > b
addDays(d, n) == d + n * MinutesPerDay
\* startOfWeek(d, {weekStartsOn: 0}): the Sunday on or before d, at 00:00 local
startOfWeek(d) == (LocalDay(d) - getDay(d)) * MinutesPerDay - TzOffset
\* addMonths keeps the day of month unless the target month is shorter
addMonths(d, n) ==
    LET mi == MonthIndex(d) + n
        dom == getDate(d)
        last == DaysInMonth(mi)
    IN NewDate(mi, IF dom >= last THEN last ELSE dom, getHours(d), getMinutes(d))

(***************************************************************************)
(* expandRecurrence                                                        *)
(***************************************************************************)
Occ(d, id) == [date |-> d, baseId |-> id]

\* Array.prototype.sort() with no comparator orders by the elements' string
\* forms; for the one-digit weekdays 0..6 that is the numeric order
RECURSIVE Insert(_, _)
Insert(x, s) ==
    IF s = <<>> THEN <<x>>
    ELSE IF x < Head(s) THEN <<x>> \o s
    ELSE <<Head(s)>> \o Insert(x, Tail(s))

\* a sort that leaves the array as it is
sortNothing(s) == s

RECURSIVE InsertionSort(_)
InsertionSort(s) == IF s = <<>> THEN <<>> ELSE Insert(Head(s), InsertionSort(Tail(s)))

sort(s) == InsertionSort(s)

InWindow(occ, st, en) == ~isBefore(occ, st) /\ ~isAfter(occ, en)

\* r.type === "none"
ExpandNone(baseDue, st, en, id) ==
    IF InWindow(baseDue, st, en) THEN <<Occ(baseDue, id)>> ELSE <<>>

\* a daily branch without its advance-to-start loop
DailySkipNothing(d, st, n) == d

\* daily: while (isBefore(d, start)) d = addDays(d, r.interval)
RECURSIVE DailySkip(_, _, _)
DailySkip(d, st, n) ==
    IF isBefore(d, st) THEN DailySkip(addDays(d, n), st, n) ELSE d

\* daily: while (!isAfter(d, end)) { results.push(d); d = addDays(d, r.interval) }
RECURSIVE DailyEmit(_, _, _, _, _)
DailyEmit(d, en, n, id, acc) ==
    IF ~isAfter(d, en)
    THEN DailyEmit(addDays(d, n), en, n, id, Append(acc, Occ(d, id)))
    ELSE acc

\* weekly: the week cursor's first value
WeekStart(baseDue, st) == startOfWeek(IF baseDue >= st THEN baseDue ELSE st)

\* weekly: one pass of the for loop over the (sorted) weekdays of week w
WeekOccurrences(w, wds, st, en, id) ==
    LET all == [i \in 1..Len(wds) |-> Occ(addDays(w, wds[i]), id)]
        Keep(o) == InWindow(o.date, st, en)
    IN SelectSeq(all, Keep)

RECURSIVE WeeklyLoop(_, _, _, _, _, _, _)
WeeklyLoop(w, wds, n, st, en, id, acc) ==
    IF ~isAfter(w, en)
    THEN WeeklyLoop(addDays(w, 7 * n), sort(wds), n, st, en, id,
                    acc \o WeekOccurrences(w, sort(wds), st, en, id))
    ELSE acc

\* monthly: while (isBefore(m, start)) m = addMonths(m, interval)
RECURSIVE MonthlySkip(_, _, _)
MonthlySkip(m, st, n) ==
    IF isBefore(m, st) THEN MonthlySkip(addMonths(m, n), st, n) ELSE m

\* monthly: the occurrence built from cursor m
MonthOccurrence(m, day, baseDue) ==
    NewDate(MonthIndex(m), day, getHours(baseDue), getMinutes(baseDue))

RECURSIVE MonthlyEmit(_, _, _, _, _, _, _, _)
MonthlyEmit(m, day, baseDue, n, st, en, id, acc) ==
    IF ~isAfter(m, en)
    THEN LET occ == MonthOccurrence(m, day, baseDue) IN
         MonthlyEmit(addMonths(m, n), day, baseDue, n, st, en, id,
                     IF InWindow(occ, st, en) THEN Append(acc, Occ(occ, id)) ELSE acc)
    ELSE acc

\* the array expandRecurrence(t, st, en) returns
ExpandResults(t, st, en) ==
    LET baseDue == parseISO(t.dueDate)
        r == t.recurrence
    IN CASE r.type = "none" -> ExpandNone(baseDue, st, en, t.id)
         [] r.type = "daily" ->
              DailyEmit(DailySkip(baseDue, st, r.interval), en, r.interval, t.id, <<>>)
         [] r.type = "weekly" ->
              WeeklyLoop(WeekStart(baseDue, st), r.weekdays, r.interval, st, en, t.id, <<>>)
         [] r.type = "monthly" ->
              MonthlyEmit(MonthlySkip(baseDue, st, r.interval), r.day, baseDue,
                          r.interval, st, en, t.id, <<>>)

\* the Task object after expandRecurrence(t, st, en): the weekly branch sorts
\* t.recurrence.weekdays in place each time the while loop's body runs
TaskAfterExpand(t, st, en) ==
    IF t.recurrence.type = "weekly" /\ ~isAfter(WeekStart(parseISO(t.dueDate), st), en)
    THEN [t EXCEPT !.recurrence.weekdays = sort(@)]
    ELSE t

(***************************************************************************)
(* Inputs                                                                  *)
(***************************************************************************)
Weekdays == 0..6

RECURSIVE SeqsUpTo(_, _)
SeqsUpTo(S, n) ==
    IF n = 0 THEN {<<>>}
    ELSE LET shorter == SeqsUpTo(S, n - 1) IN
         shorter \cup {Append(s, x) : s \in {q \in shorter : Len(q) = n - 1}, x \in S}

Intervals == 1..MaxInterval
MonthDays == {1, 15, 28}

Recurrences ==
    {[type |-> "none"]}
    \cup {[type |-> "daily", interval |-> n] : n \in Intervals}
    \cup {[type |-> "weekly", interval |-> n, weekdays |-> wds] :
             n \in Intervals, wds \in SeqsUpTo(Weekdays, MaxWeekdays)}
    \cup {[type |-> "monthly", interval |-> n, day |-> d] : n \in Intervals, d \in MonthDays}

\* dueDate strings (UTC): 2024-01-03T01:00Z (Wed 09:00 local), 2024-01-31T02:00Z
\* (Wed 10:00 local), 2024-01-14T16:00Z (Mon 2024-01-15 00:00 local)
DueDates ==
    { [mi |-> 1, day |-> 3, hh |-> 1, mm |-> 0],
      [mi |-> 1, day |-> 31, hh |-> 2, mm |-> 0],
      [mi |-> 1, day |-> 14, hh |-> 16, mm |-> 0] }

Tasks == {[id |-> "t1", dueDate |-> dd, recurrence |-> r] : dd \in DueDates, r \in Recurrences}

DayStart(mi, day) == NewDate(mi, day, 0, 0)
DayEnd(mi, day) == NewDate(mi, day, 23, 59)

\* window bounds: the month grids of January and February 2024, days inside
\* them, and instants that are occurrences themselves
WindowStarts ==
    { DayStart(0, 31), DayStart(1, 28),
      DayStart(1, 7), DayStart(1, 14), DayStart(2, 1), DayStart(2, 10),
      NewDate(1, 3, 9, 0), NewDate(1, 4, 9, 0), NewDate(2, 28, 10, 0) }
WindowEnds ==
    { DayEnd(2, 3), DayEnd(3, 2),
      DayEnd(1, 2), DayEnd(1, 17), DayEnd(2, 28),
      NewDate(1, 3, 9, 0), NewDate(1, 5, 9, 0), NewDate(2, 28, 10, 0) }

(***************************************************************************)
(* Spec: a caller hands a task and a window to expandRecurrence, which     *)
(* runs to completion (it is synchronous).                                 *)
(***************************************************************************)
\* the App's state while only expandRecurrence is looked at
AppIdle ==
    /\ viewDate = 0
    /\ tasks = <<>>
    /\ now = 0
    /\ query = <<>>
    /\ occs = <<>>
    /\ filtered = <<>>
    /\ dialog = [open |-> FALSE, initial |-> <<>>]
    /\ fired = {}
    /\ nextKey = 0

Init ==
    /\ AppIdle
    /\ task \in Tasks
    /\ start \in WindowStarts
    /\ end \in WindowEnds
    /\ results = <<>>
    /\ pc = "ready"
    /\ cursor = 0
    /\ taskAtCall = task

expandRecurrence ==
    /\ pc = "ready"
    /\ taskAtCall' = task
    /\ results' = ExpandResults(task, start, end)
    /\ task' = TaskAfterExpand(task, start, end)
    /\ pc' = "returned"
    /\ UNCHANGED <<start, end, cursor>>
    /\ UNCHANGED appVars

Next == expandRecurrence

Spec == Init /\ [][Next]_vars

(***************************************************************************)
(* Properties of one call of expandRecurrence (checked under Spec)         *)
(***************************************************************************)
Returned == pc = "returned"
BaseDue == parseISO(taskAtCall.dueDate)
Rec == taskAtCall.recurrence
DatesOf(seq) == {seq[i].date : i \in 1..Len(seq)}
DateSeq(seq) == [i \in 1..Len(seq) |-> seq[i].date]
ToSet(seq) == {seq[i] : i \in 1..Len(seq)}
\* the local day number of the Sunday that starts d's week
WeekOf(d) == LocalDay(d) - getDay(d)

\* C1: window monotonicity - whatever expandRecurrence returns for a window
\* inside [start, end] is also among the results for [start, end].
C1_WindowMonotonicity ==
    Returned =>
        \A s2 \in WindowStarts, e2 \in WindowEnds :
            (start <= s2 /\ s2 <= e2 /\ e2 <= end)
                => DatesOf(ExpandResults(taskAtCall, s2, e2)) \subseteq DatesOf(results)

\* C2: inclusive boundaries - every returned date lies in [start, end], and
\* every date the task's rule produces (for any window) is returned when it
\* lies in [start, end]; in particular the window [d, d] returns d.
C2_InclusiveBoundaries ==
    Returned =>
        /\ \A d \in DatesOf(results) : start <= d /\ d <= end
        /\ \A d \in DatesOf(results) : d \in DatesOf(ExpandResults(taskAtCall, d, d))
        /\ \A s \in WindowStarts, e \in WindowEnds :
              \A d \in DatesOf(ExpandResults(taskAtCall, s, e)) :
                  (start <= d /\ d <= end) => d \in DatesOf(results)

\* C3: every occurrence of a weekly task falls on one of its weekdays, in a
\* week that starts a whole multiple of interval*7 days after the Sunday of
\* the anchor's week, wherever the window starts.
C3_WeeklyEveryIntervalWeeksFromAnchor ==
    (Returned /\ Rec.type = "weekly") =>
        \A d \in DatesOf(results) :
            /\ getDay(d) \in ToSet(Rec.weekdays)
            /\ WeekOf(d) >= WeekOf(BaseDue)
            /\ (WeekOf(d) - WeekOf(BaseDue)) % (7 * Rec.interval) = 0

\* the instant (month mi, `day`, anchor hour, anchor minute)
MonthlyInstant(mi) == NewDate(mi, Rec.day, getHours(BaseDue), getMinutes(BaseDue))

\* C4: for a monthly task, the instant of every month k*interval months
\* after the anchor's month (k >= 1) is returned iff it lies in the window;
\* at most one occurrence per month, none in a month off the interval.
C4_MonthlyExactlyInWindow ==
    (Returned /\ Rec.type = "monthly") =>
        /\ \A mi \in (MonthIndex(BaseDue) + 1)..MaxMonth :
              (mi - MonthIndex(BaseDue)) % Rec.interval = 0
                  => (MonthlyInstant(mi) \in DatesOf(results)
                        <=> (start <= MonthlyInstant(mi) /\ MonthlyInstant(mi) <= end))
        /\ \A i, j \in 1..Len(results) :
              MonthIndex(results[i].date) = MonthIndex(results[j].date) => i = j
        /\ \A d \in DatesOf(results) :
              /\ MonthIndex(d) >= MonthIndex(BaseDue)
              /\ (MonthIndex(d) - MonthIndex(BaseDue)) % Rec.interval = 0

\* the instants anchor + k*interval days, k >= 0, inside [start, end]
DailyInstants ==
    {d \in {BaseDue + k * Rec.interval * MinutesPerDay :
                k \in 0..((end - BaseDue) \div MinutesPerDay + 1)} :
        start <= d /\ d <= end}

\* C5: a daily task yields exactly the instants anchor + k*interval days
\* (k >= 0) that lie in [start, end], each once; nothing before start.
C5_DailyExactlyInWindow ==
    (Returned /\ Rec.type = "daily") =>
        /\ DatesOf(results) = DailyInstants
        /\ Len(results) = Cardinality(DailyInstants)

\* C5 witness: a daily call whose anchor lies before the window start and
\* that returned several occurrences, the first one after the start.
C5_Witness ==
    /\ Returned /\ Rec.type = "daily" /\ Rec.interval = 2
    /\ BaseDue < start
    /\ Len(results) >= 2
    /\ results[1].date > start

\* C6: the call leaves the task object as it was.
C6_TaskUnchanged == Returned => task = taskAtCall

\* C7: every occurrence of a weekly task has the anchor's time of day.
C7_WeeklyKeepsTimeOfDay ==
    (Returned /\ Rec.type = "weekly") =>
        \A d \in DatesOf(results) :
            getHours(d) = getHours(BaseDue) /\ getMinutes(d) = getMinutes(BaseDue)

\* C8: the returned sequence is non-decreasing by date.
C8_NonDecreasing ==
    Returned =>
        \A i, j \in 1..Len(results) : i < j => results[i].date <= results[j].date

\* C8 witness: a weekly call with unsorted weekdays that returned occurrences
\* on different days of one week and in a later week.
C8_Witness ==
    /\ Returned /\ Rec.type = "weekly"
    /\ Len(Rec.weekdays) = 2 /\ Rec.weekdays[1] > Rec.weekdays[2]
    /\ Len(results) >= 3
    /\ WeekOf(results[1].date) = WeekOf(results[2].date)
    /\ results[1].date < results[2].date
    /\ WeekOf(results[3].date) > WeekOf(results[1].date)

RECURSIVE Dedup(_)
Dedup(s) ==
    IF s = <<>> THEN <<>>
    ELSE LET rest == Dedup(SubSeq(s, 1, Len(s) - 1))
             x == s[Len(s)]
         IN IF x \in ToSet(rest) THEN rest ELSE Append(rest, x)

\* C9: a weekly task with repeated weekdays yields the same sequence as the
\* task with the repetitions removed.
C9_DuplicateWeekdaysIdempotent ==
    (Returned /\ Rec.type = "weekly") =>
        DateSeq(results) =
            DateSeq(ExpandResults(
                [taskAtCall EXCEPT !.recurrence.weekdays = Dedup(@)], start, end))

(***************************************************************************)
(* LoopSpec: expandRecurrence one loop iteration at a time, for tasks      *)
(* whose interval may be malformed (zero or negative, as loadTasks can     *)
(* supply: it does not validate what it parses).  A loop that cannot end   *)
(* is cut off by the guards below: results stop growing at MaxResults and  *)
(* a cursor stops running back MaxBack days before the earliest window.    *)
(***************************************************************************)
LoopIntervals == (0 - 1)..MaxInterval

LoopRecurrences ==
    {[type |-> "none"]}
    \cup {[type |-> "daily", interval |-> n] : n \in LoopIntervals}
    \cup {[type |-> "weekly", interval |-> n, weekdays |-> wds] :
             n \in LoopIntervals, wds \in SeqsUpTo(Weekdays, MaxWeekdays)}
    \cup {[type |-> "monthly", interval |-> n, day |-> d] :
             n \in LoopIntervals, d \in MonthDays}

LoopTasks ==
    {[id |-> "t1", dueDate |-> dd, recurrence |-> r] : dd \in DueDates, r \in LoopRecurrences}

CursorFloor == DayStart(0, 31) - MaxBack * MinutesPerDay

\* the guard that cuts off a loop that cannot end
MayStep(next) ==
    \/ task.recurrence.interval >= 1
    \/ Len(results) < MaxResults /\ next >= CursorFloor

LoopInit ==
    /\ AppIdle
    /\ task \in LoopTasks
    /\ start \in WindowStarts
    /\ end \in WindowEnds
    /\ results = <<>>
    /\ pc = "ready"
    /\ cursor = 0
    /\ taskAtCall = task

EnterNone ==
    /\ pc = "ready" /\ task.recurrence.type = "none"
    /\ results' = ExpandNone(parseISO(task.dueDate), start, end, task.id)
    /\ pc' = "returned"
    /\ taskAtCall' = task
    /\ UNCHANGED <<task, start, end, cursor>>
    /\ UNCHANGED appVars

EnterDaily ==
    /\ pc = "ready" /\ task.recurrence.type = "daily"
    /\ cursor' = parseISO(task.dueDate)
    /\ pc' = "daily_skip"
    /\ taskAtCall' = task
    /\ UNCHANGED <<task, start, end, results>>
    /\ UNCHANGED appVars

DailySkipStep ==
    /\ pc = "daily_skip" /\ isBefore(cursor, start)
    /\ MayStep(addDays(cursor, task.recurrence.interval))
    /\ cursor' = addDays(cursor, task.recurrence.interval)
    /\ UNCHANGED <<task, start, end, results, pc, taskAtCall>>
    /\ UNCHANGED appVars

DailySkipExit ==
    /\ pc = "daily_skip" /\ ~isBefore(cursor, start)
    /\ pc' = "daily_emit"
    /\ UNCHANGED <<task, start, end, results, cursor, taskAtCall>>
    /\ UNCHANGED appVars

DailyEmitStep ==
    /\ pc = "daily_emit" /\ ~isAfter(cursor, end)
    /\ MayStep(addDays(cursor, task.recurrence.interval))
    /\ results' = Append(results, Occ(cursor, task.id))
    /\ cursor' = addDays(cursor, task.recurrence.interval)
    /\ UNCHANGED <<task, start, end, pc, taskAtCall>>
    /\ UNCHANGED appVars

DailyEmitExit ==
    /\ pc = "daily_emit" /\ isAfter(cursor, end)
    /\ pc' = "returned"
    /\ UNCHANGED <<task, start, end, results, cursor, taskAtCall>>
    /\ UNCHANGED appVars

EnterWeekly ==
    /\ pc = "ready" /\ task.recurrence.type = "weekly"
    /\ cursor' = WeekStart(parseISO(task.dueDate), start)
    /\ pc' = "weekly_loop"
    /\ taskAtCall' = task
    /\ UNCHANGED <<task, start, end, results>>
    /\ UNCHANGED appVars

WeeklyStep ==
    /\ pc = "weekly_loop" /\ ~isAfter(cursor, end)
    /\ MayStep(addDays(cursor, 7 * task.recurrence.interval))
    /\ task' = [task EXCEPT !.recurrence.weekdays = sort(@)]
    /\ results' = results \o
           WeekOccurrences(cursor, sort(task.recurrence.weekdays), start, end, task.id)
    /\ cursor' = addDays(cursor, 7 * task.recurrence.interval)
    /\ UNCHANGED <<start, end, pc, taskAtCall>>
    /\ UNCHANGED appVars

WeeklyExit ==
    /\ pc = "weekly_loop" /\ isAfter(cursor, end)
    /\ pc' = "returned"
    /\ UNCHANGED <<task, start, end, results, cursor, taskAtCall>>
    /\ UNCHANGED appVars

EnterMonthly ==
    /\ pc = "ready" /\ task.recurrence.type = "monthly"
    /\ cursor' = parseISO(task.dueDate)
    /\ pc' = "monthly_skip"
    /\ taskAtCall' = task
    /\ UNCHANGED <<task, start, end, results>>
    /\ UNCHANGED appVars

MonthlySkipStep ==
    /\ pc = "monthly_skip" /\ isBefore(cursor, start)
    /\ MayStep(addMonths(cursor, task.recurrence.interval))
    /\ cursor' = addMonths(cursor, task.recurrence.interval)
    /\ UNCHANGED <<task, start, end, results, pc, taskAtCall>>
    /\ UNCHANGED appVars

MonthlySkipExit ==
    /\ pc = "monthly_skip" /\ ~isBefore(cursor, start)
    /\ pc' = "monthly_emit"
    /\ UNCHANGED <<task, start, end, results, cursor, taskAtCall>>
    /\ UNCHANGED appVars

MonthlyEmitStep ==
    /\ pc = "monthly_emit" /\ ~isAfter(cursor, end)
    /\ MayStep(addMonths(cursor, task.recurrence.interval))
    /\ LET occ == MonthOccurrence(cursor, task.recurrence.day, parseISO(task.dueDate)) IN
       results' = IF InWindow(occ, start, end)
                  THEN Append(results, Occ(occ, task.id))
                  ELSE results
    /\ cursor' = addMonths(cursor, task.recurrence.interval)
    /\ UNCHANGED <<task, start, end, pc, taskAtCall>>
    /\ UNCHANGED appVars

MonthlyEmitExit ==
    /\ pc = "monthly_emit" /\ isAfter(cursor, end)
    /\ pc' = "returned"
    /\ UNCHANGED <<task, start, end, results, cursor, taskAtCall>>
    /\ UNCHANGED appVars

LoopNext ==
    \/ EnterNone
    \/ EnterDaily \/ DailySkipStep \/ DailySkipExit \/ DailyEmitStep \/ DailyEmitExit
    \/ EnterWeekly \/ WeeklyStep \/ WeeklyExit
    \/ EnterMonthly \/ MonthlySkipStep \/ MonthlySkipExit
    \/ MonthlyEmitStep \/ MonthlyEmitExit

LoopSpec == LoopInit /\ [][LoopNext]_vars

\* the loops, run to their end, give what ExpandResults and TaskAfterExpand give
LoopAgreesWithExpand ==
    (pc = "returned" /\ (Rec.type = "none" \/ Rec.interval >= 1)) =>
        /\ results = ExpandResults(taskAtCall, start, end)
        /\ task = TaskAfterExpand(taskAtCall, start, end)

\* the loop at pc is entered again and its cursor does not move towards the
\* loop's exit: the loop's condition stays true for ever
LoopCannotEnd ==
    LET n == task.recurrence.interval IN
    \/ pc = "daily_skip" /\ isBefore(cursor, start) /\ addDays(cursor, n) <= cursor
    \/ pc = "daily_emit" /\ ~isAfter(cursor, end) /\ addDays(cursor, n) <= cursor
    \/ pc = "weekly_loop" /\ ~isAfter(cursor, end) /\ addDays(cursor, 7 * n) <= cursor
    \/ pc = "monthly_skip" /\ isBefore(cursor, start) /\ addMonths(cursor, n) <= cursor
    \/ pc = "monthly_emit" /\ ~isAfter(cursor, end) /\ addMonths(cursor, n) <= cursor

\* C10: for a daily, weekly or monthly task whose interval is zero or
\* negative, the call ends and returns the empty sequence: it emits nothing
\* and no loop of it runs for ever.
C10_MalformedIntervalYieldsNothing ==
    (Rec.type \in {"daily", "weekly", "monthly"} /\ Rec.interval <= 0) =>
        /\ results = <<>>
        /\ ~LoopCannotEnd

(***************************************************************************)
(* monthGridRange and the calendar's day cells                             *)
(***************************************************************************)
startOfMonth(d) == NewDate(MonthIndex(d), 1, 0, 0)
\* endOfMonth and endOfWeek give 23:59:59.999, here the day's last minute
endOfMonth(d) == NewDate(MonthIndex(d), DaysInMonth(MonthIndex(d)), 23, 59)
endOfWeek(d) ==
    (LocalDay(d) - getDay(d) + 6) * MinutesPerDay + 23 * 60 + 59 - TzOffset

\* a grid that is the month itself, not widened to whole weeks
monthGridRangeMonthOnly(v) == [start |-> startOfMonth(v), end |-> endOfMonth(v)]

monthGridRange(v) ==
    [start |-> startOfWeek(startOfMonth(v)), end |-> endOfWeek(endOfMonth(v))]

\* Calendar: let d = new Date(start); while (+d <= +end) { days.push(d); d.setDate(d.getDate()+1) }
RECURSIVE CalendarDays(_, _, _)
CalendarDays(d, en, days) ==
    IF d <= en THEN CalendarDays(addDays(d, 1), en, Append(days, d)) ELSE days

ViewTimes == {<<0, 0>>, <<9, 30>>, <<23, 59>>}
ViewDates ==
    {NewDate(mi, day, hm[1], hm[2]) :
        mi \in 0..(MaxMonth - 1), day \in 1..28, hm \in ViewTimes}
    \cup {NewDate(mi, DaysInMonth(mi), hm[1], hm[2]) :
        mi \in 0..(MaxMonth - 1), hm \in ViewTimes}

(***************************************************************************)
(* GridSpec: the calendar is shown for a viewDate                          *)
(***************************************************************************)
IdleTask ==
    [id |-> "t1", dueDate |-> [mi |-> 1, day |-> 3, hh |-> 1, mm |-> 0],
     recurrence |-> [type |-> "none"]]

GridInit ==
    /\ viewDate \in ViewDates
    /\ pc = "view"
    /\ start = 0 /\ end = 0
    /\ task = IdleTask /\ taskAtCall = IdleTask /\ results = <<>> /\ cursor = 0
    /\ tasks = <<>> /\ now = 0 /\ query = <<>> /\ occs = <<>> /\ filtered = <<>>
    /\ dialog = [open |-> FALSE, initial |-> <<>>]
    /\ fired = {} /\ nextKey = 0

\* const { start, end } = monthGridRange(viewDate)
ShowGrid ==
    /\ pc = "view"
    /\ start' = monthGridRange(viewDate).start
    /\ end' = monthGridRange(viewDate).end
    /\ pc' = "grid"
    /\ UNCHANGED <<task, results, cursor, taskAtCall>>
    /\ UNCHANGED appVars

GridNext == ShowGrid

GridSpec == GridInit /\ [][GridNext]_vars

GridDays == CalendarDays(start, end, <<>>)
FirstOfMonthDay == MonthStartDay(MonthIndex(viewDate))
LastOfMonthDay == MonthStartDay(MonthIndex(viewDate) + 1) - 1

\* C11: the grid starts on a Sunday on or before the first day of viewDate's
\* month, ends on a Saturday on or after its last day, and has 28, 35 or 42
\* day cells; viewDate 2024-02-15 gives 2024-01-28 .. 2024-03-02, 35 days.
C11_GridShape ==
    pc = "grid" =>
        /\ getDay(start) = 0 /\ LocalDay(start) <= FirstOfMonthDay
        /\ getDay(end) = 6 /\ LocalDay(end) >= LastOfMonthDay
        /\ Len(GridDays) = LocalDay(end) - LocalDay(start) + 1
        /\ Len(GridDays) % 7 = 0
        /\ Len(GridDays) \in {28, 35, 42}
        /\ (MonthIndex(viewDate) = 2 /\ getDate(viewDate) = 15) =>
              /\ LocalDay(start) = MonthStartDay(1) + 27
              /\ LocalDay(end) = MonthStartDay(3) + 1
              /\ Len(GridDays) = 35

\* C11 witness: a month shown in four weeks (February 2026)
C11_Witness == pc = "grid" /\ Len(GridDays) = 28

(***************************************************************************)
(* Occurrences and the anchor (checked under Spec)                         *)
(***************************************************************************)
\* C15: no returned date precedes the task's anchor dueDate.
C15_NoOccurrenceBeforeAnchor ==
    Returned => \A d \in DatesOf(results) : d >= BaseDue

(***************************************************************************)
(* The App (src/unnamed/part_000).  Text is a sequence of characters.      *)
(***************************************************************************)
\* the clock counts seconds: the 60000 ms of a minute and the 15000 ms
\* between two ticks are 60 and 15 of them
SecondsPerMinute == 60
TickSeconds == 15

\* the value of a property that was never set, or set to undefined
Undefined == "undefined"

ToLowerChar(c) ==
    CASE c = "A" -> "a" [] c = "P" -> "p" [] c = "U" -> "u" [] c = "Z" -> "z"
      [] OTHER -> c
toLowerCase(str) == [i \in 1..Len(str) |-> ToLowerChar(str[i])]

RECURSIVE trimStart(_)
trimStart(str) ==
    IF str # <<>> /\ Head(str) = " " THEN trimStart(Tail(str)) ELSE str
RECURSIVE trimEnd(_)
trimEnd(str) ==
    IF str # <<>> /\ str[Len(str)] = " "
    THEN trimEnd(SubSeq(str, 1, Len(str) - 1)) ELSE str
trim(str) == trimEnd(trimStart(str))

\* String.prototype.includes
includes(str, q) ==
    \E i \in 1..(Len(str) + 1) :
        i + Len(q) - 1 <= Len(str) /\ SubSeq(str, i, i + Len(q) - 1) = q

\* Array.prototype.join(" ")
RECURSIVE join(_)
join(parts) ==
    IF parts = <<>> THEN <<>>
    ELSE IF Len(parts) = 1 THEN parts[1]
    ELSE parts[1] \o <<" ">> \o join(Tail(parts))

StatusText(st) ==
    CASE st = "active" -> <<"a", "c", "t", "i", "v", "e">>
      [] st = "paused" -> <<"p", "a", "u", "s", "e", "d">>
      [] st = "completed" -> <<"c", "o", "m", "p", "l", "e", "t", "e", "d">>
PriorityText(pr) ==
    CASE pr = "low" -> <<"l", "o", "w">>
      [] pr = "medium" -> <<"m", "e", "d", "i", "u", "m">>
      [] pr = "high" -> <<"h", "i", "g", "h">>
UntitledTask == <<"U", "n", "t", "i", "t", "l", "e", "d", " ", "t", "a", "s", "k">>

\* Date.toISOString, to the minute: the UTC fields of an instant
UTCMonthIndex(t) ==
    CHOOSE mi \in 0..MaxMonth :
        MonthStartDay(mi) <= t \div MinutesPerDay
            /\ t \div MinutesPerDay < MonthStartDay(mi + 1)
toISOString(t) ==
    [mi |-> UTCMonthIndex(t),
     day |-> t \div MinutesPerDay - MonthStartDay(UTCMonthIndex(t)) + 1,
     hh |-> (t % MinutesPerDay) \div 60,
     mm |-> t % 60]

\* { ...a, ...b }: every own property of b, undefined ones too, replaces a's
Spread(a, b) ==
    [k \in DOMAIN a \cup DOMAIN b |-> IF k \in DOMAIN b THEN b[k] ELSE a[k]]

\* the results uid() can give
IdPool == {"k3j9x", "q0z7r"}

\* what the user leaves in the dialog's fields: the name, the local date and
\* time typed as the due date, the status, and the recurrence inputs.  The
\* due date is always typed (the field's default, the UTC text of the stored
\* dueDate read back as local time, is not among the inputs); description and
\* categories stay empty, priority stays "medium", createdAt is left out, and
\* notifiedAt is kept to the minute, which is all tick reads of it.
FormInputs ==
    { [name |-> <<"P", "a", "y", " ">>, due |-> <<1, 15, 10, 0>>, status |-> "active",
       recType |-> "none", interval |-> 1, weeklyDays |-> <<>>],
      [name |-> <<"P", "a", "y", " ">>, due |-> <<1, 15, 10, 1>>, status |-> "active",
       recType |-> "daily", interval |-> 7, weeklyDays |-> <<>>],
      [name |-> <<" ">>, due |-> <<1, 15, 10, 0>>, status |-> "paused",
       recType |-> "weekly", interval |-> 0, weeklyDays |-> <<3, 0>>] }

\* what the user types in the search box
QueryInputs == { <<>>, <<" ", "P", "A", "U">>, <<"a", "y">> }

\* the clock when the App mounts: 2024-01-15 10:00:00 local
MountTime == NewDate(1, 15, 10, 0) * SecondsPerMinute

\* TaskDialog.submit: the payload handed to onSave
Max(a, b) == IF a >= b THEN a ELSE b
SubmitRecurrence(f) ==
    CASE f.recType = "none" -> [type |-> "none"]
      [] f.recType = "daily" -> [type |-> "daily", interval |-> Max(1, f.interval)]
      [] f.recType = "weekly" ->
           [type |-> "weekly", interval |-> Max(1, f.interval),
            weekdays |-> sort(f.weeklyDays)]
submit(f, initial) ==
    [id |-> IF initial = <<>> THEN Undefined ELSE initial[1].id,
     name |-> IF trim(f.name) = <<>> THEN UntitledTask ELSE trim(f.name),
     description |-> <<>>,
     priority |-> "medium",
     dueDate |-> toISOString(NewDate(f.due[1], f.due[2], f.due[3], f.due[4])),
     status |-> f.status,
     recurrence |-> SubmitRecurrence(f)]

\* upsertTask: the new task list.  key is not a field of the program's Task:
\* it records which task of the user an entry stands for (a new one for the
\* New Task dialog, the edited one for the Edit dialog)
upsertTask(prev, input, u, key) ==
    IF input.id = Undefined \/ input.id = ""
    THEN <<Spread(Spread([id |-> u, notifiedAt |-> <<>>, key |-> key], input),
                  [name |-> IF input.name = <<>> THEN UntitledTask ELSE input.name,
                   description |-> input.description])>> \o prev
    ELSE [i \in 1..Len(prev) |->
             IF prev[i].id = input.id THEN Spread(prev[i], input) ELSE prev[i]]

removeTask(prev, id) == SelectSeq(prev, LAMBDA t : t.id # id)
toggleComplete(prev, id) ==
    [i \in 1..Len(prev) |->
        IF prev[i].id = id
        THEN [prev[i] EXCEPT !.status = IF @ = "completed" THEN "active" ELSE "completed"]
        ELSE prev[i]]
togglePause(prev, id) ==
    [i \in 1..Len(prev) |->
        IF prev[i].id = id
        THEN [prev[i] EXCEPT !.status = IF @ = "paused" THEN "active" ELSE "paused"]
        ELSE prev[i]]

\* tick: whether the reminder of t fires at the clock value ms (seconds)
Already(t, dueMin) ==
    IF t.notifiedAt # <<>> THEN parseISO(t.notifiedAt[1]) = dueMin ELSE FALSE
Fires(t, ms) ==
    /\ t.status = "active"
    /\ parseISO(t.dueDate) = ms \div SecondsPerMinute
    /\ ~Already(t, parseISO(t.dueDate))
tick(prev, ms) ==
    [i \in 1..Len(prev) |->
        IF Fires(prev[i], ms)
        THEN [prev[i] EXCEPT !.notifiedAt = <<toISOString(ms \div SecondsPerMinute)>>]
        ELSE prev[i]]

(***************************************************************************)
(* One render of App: the grid window, occs and filtered                   *)
(***************************************************************************)
\* a calendar that leaves out completed tasks only
SkippedIfCompleted(t) == t.status = "completed"
\* occs: if (t.status === "completed" || t.status === "paused") continue
Skipped(t) == t.status = "completed" \/ t.status = "paused"

\* the task objects after the occs loop has run expandRecurrence on them
ExpandedTasks(ts, st, en) ==
    [i \in 1..Len(ts) |->
        IF Skipped(ts[i]) THEN ts[i] ELSE TaskAfterExpand(ts[i], st, en)]

RECURSIVE OccsLoop(_, _, _, _)
OccsLoop(ts, st, en, list) ==
    IF ts = <<>> THEN list
    ELSE IF Skipped(Head(ts)) THEN OccsLoop(Tail(ts), st, en, list)
    ELSE LET found == ExpandResults(Head(ts), st, en)
             t == TaskAfterExpand(Head(ts), st, en)
         IN OccsLoop(Tail(ts), st, en,
                     list \o [j \in 1..Len(found) |-> [task |-> t, date |-> found[j].date]])

\* the text the search box is matched against
Haystack(t) ==
    toLowerCase(join(<<t.name, t.description, PriorityText(t.priority),
                       StatusText(t.status)>>))
Matches(t, q) == includes(Haystack(t), toLowerCase(trim(q)))
Filter(ts, q) == SelectSeq(ts, LAMBDA t : Matches(t, q))

\* the state after a render with the task list ts, the view date v, the query q
Render(ts, v, q) ==
    LET grid == monthGridRange(v)
        shown == ExpandedTasks(ts, grid.start, grid.end)
    IN /\ start' = grid.start
       /\ end' = grid.end
       /\ occs' = OccsLoop(ts, grid.start, grid.end, <<>>)
       /\ tasks' = shown
       /\ filtered' = Filter(shown, q)
       /\ viewDate' = v
       /\ query' = q

(***************************************************************************)
(* AppSpec: the App's handlers                                             *)
(***************************************************************************)
\* The buttons of the checklist act on the tasks of filtered; the dialog
\* covers the page while it is open, so only the timer runs beside it.  The
\* tab that is shown is not part of the state: the buttons of both tabs are
\* one click on the tab away.
Closed == [open |-> FALSE, initial |-> <<>>]

AppInit ==
    /\ now = MountTime
    /\ viewDate = MountTime \div SecondsPerMinute
    /\ tasks = <<>>
    /\ query = <<>>
    /\ occs = <<>>
    /\ filtered = <<>>
    /\ start = monthGridRange(MountTime \div SecondsPerMinute).start
    /\ end = monthGridRange(MountTime \div SecondsPerMinute).end
    /\ dialog = Closed
    /\ fired = {}
    /\ nextKey = 0
    /\ task = IdleTask
    /\ taskAtCall = IdleTask
    /\ results = <<>>
    /\ cursor = 0
    /\ pc = "app"

ExpanderIdle == UNCHANGED <<task, results, pc, cursor, taskAtCall>>

\* the New Task button
OpenNew ==
    /\ ~dialog.open
    /\ nextKey < MaxCreates
    /\ Len(tasks) < MaxTasks
    /\ dialog' = [open |-> TRUE, initial |-> <<>>]
    /\ Render(tasks, viewDate, query)
    /\ UNCHANGED <<now, fired, nextKey>>
    /\ ExpanderIdle

\* the Edit button of a task of the checklist
OpenEdit ==
    /\ ~dialog.open
    /\ \E i \in 1..Len(filtered) :
           dialog' = [open |-> TRUE, initial |-> <<filtered[i]>>]
    /\ Render(tasks, viewDate, query)
    /\ UNCHANGED <<now, fired, nextKey>>
    /\ ExpanderIdle

\* the dialog's Cancel button
Cancel ==
    /\ dialog.open
    /\ dialog' = Closed
    /\ Render(tasks, viewDate, query)
    /\ UNCHANGED <<now, fired, nextKey>>
    /\ ExpanderIdle

\* the dialog's Create / Save button: submit, upsertTask, close
Save ==
    /\ dialog.open
    /\ \E f \in FormInputs, u \in IdPool :
           LET input == submit(f, dialog.initial)
               key == IF dialog.initial = <<>> THEN nextKey ELSE dialog.initial[1].key
               ts == upsertTask(tasks, input, u, key)
           IN /\ Len(ts) <= MaxTasks
              /\ Render(ts, viewDate, query)
    /\ nextKey' = IF dialog.initial = <<>> THEN nextKey + 1 ELSE nextKey
    /\ dialog' = Closed
    /\ UNCHANGED <<now, fired>>
    /\ ExpanderIdle

\* the Delete button of a task of the checklist
Delete ==
    /\ ~dialog.open
    /\ \E i \in 1..Len(filtered) :
           Render(removeTask(tasks, filtered[i].id), viewDate, query)
    /\ UNCHANGED <<now, dialog, fired, nextKey>>
    /\ ExpanderIdle

\* the checkbox of a task of the checklist
ToggleComplete ==
    /\ ~dialog.open
    /\ \E i \in 1..Len(filtered) :
           Render(toggleComplete(tasks, filtered[i].id), viewDate, query)
    /\ UNCHANGED <<now, dialog, fired, nextKey>>
    /\ ExpanderIdle

\* the Pause / Resume button of a task of the checklist
TogglePause ==
    /\ ~dialog.open
    /\ \E i \in 1..Len(filtered) :
           Render(togglePause(tasks, filtered[i].id), viewDate, query)
    /\ UNCHANGED <<now, dialog, fired, nextKey>>
    /\ ExpanderIdle

\* typing in the search box
SetQuery ==
    /\ ~dialog.open
    /\ \E q \in QueryInputs : q # query /\ Render(tasks, viewDate, q)
    /\ UNCHANGED <<now, dialog, fired, nextKey>>
    /\ ExpanderIdle

\* the calendar's < button
PrevMonth ==
    /\ ~dialog.open
    /\ MonthIndex(viewDate) > 0
    /\ MonthIndex(now \div SecondsPerMinute) - (MonthIndex(viewDate) - 1) <= MaxNav
    /\ Render(tasks, addMonths(viewDate, 0 - 1), query)
    /\ UNCHANGED <<now, dialog, fired, nextKey>>
    /\ ExpanderIdle

\* the calendar's > button
NextMonth ==
    /\ ~dialog.open
    /\ MonthIndex(viewDate) + 1 - MonthIndex(now \div SecondsPerMinute) <= MaxNav
    /\ Render(tasks, addMonths(viewDate, 1), query)
    /\ UNCHANGED <<now, dialog, fired, nextKey>>
    /\ ExpanderIdle

\* the calendar's Today button
Today ==
    /\ ~dialog.open
    /\ viewDate # now \div SecondsPerMinute
    /\ Render(tasks, now \div SecondsPerMinute, query)
    /\ UNCHANGED <<now, dialog, fired, nextKey>>
    /\ ExpanderIdle

\* the interval timer: TickSeconds later, tick runs over the task list
Tick ==
    /\ now + TickSeconds <= MountTime + MaxTicks * TickSeconds
    /\ now' = now + TickSeconds
    /\ fired' = fired \cup
          {[key |-> tasks[i].key, dueMin |-> parseISO(tasks[i].dueDate), at |-> now + TickSeconds] :
              i \in {j \in 1..Len(tasks) : Fires(tasks[j], now + TickSeconds)}}
    /\ Render(tick(tasks, now + TickSeconds), viewDate, query)
    /\ UNCHANGED <<dialog, nextKey>>
    /\ ExpanderIdle

AppNext ==
    \/ OpenNew
    \/ OpenEdit
    \/ Cancel
    \/ Save
    \/ Delete
    \/ ToggleComplete
    \/ TogglePause
    \/ SetQuery
    \/ PrevMonth
    \/ NextMonth
    \/ Today
    \/ Tick

AppSpec == AppInit /\ [][AppNext]_vars

(***************************************************************************)
(* Claims about the App                                                    *)
(***************************************************************************)
TaskIndexes == 1..Len(tasks)

\* C12: task identity - every task of the list has a defined id, and no two
\* tasks of the list have the same id.
C12_TaskIdentity ==
    /\ \A i \in TaskIndexes : tasks[i].id # Undefined /\ tasks[i].id # ""
    /\ \A i, j \in TaskIndexes : i # j => tasks[i].id # tasks[j].id

\* C13: reminder idempotence - over ticks interleaved with edits and toggles
\* the reminder of a task fires at most once per due-minute: no two firings
\* are for the same task and the same due-minute.
C13_AtMostOncePerTaskPerDueMinute ==
    \A e1, e2 \in fired :
        (e1.key = e2.key /\ e1.dueMin = e2.dueMin) => e1 = e2

\* the dates the calendar shows for the task object t
OccDatesOf(t) == {occs[k].date : k \in {n \in 1..Len(occs) : occs[n].task = t}}

\* C14: paused tasks are hidden on the calendar and visible in the list - no
\* entry of occs belongs to a paused or completed task; a paused task is in
\* the checklist whenever it matches the query, and always for the empty
\* query; a paused task has no calendar occurrence, and an active (resumed)
\* one has exactly the occurrences of its recurrence in the grid window.
C14_PausedHiddenOnCalendarVisibleInList ==
    /\ \A k \in 1..Len(occs) :
          /\ occs[k].task \in ToSet(tasks)
          /\ occs[k].task.status # "paused"
          /\ occs[k].task.status # "completed"
    /\ \A i \in TaskIndexes :
          tasks[i].status = "paused" =>
              /\ Matches(tasks[i], query) => tasks[i] \in ToSet(filtered)
              /\ trim(query) = <<>> => tasks[i] \in ToSet(filtered)
              /\ OccDatesOf(tasks[i]) = {}
    /\ \A i \in TaskIndexes :
          tasks[i].status = "active" =>
              OccDatesOf(tasks[i]) = DatesOf(ExpandResults(tasks[i], start, end))

\* a task created active and paused since is listed under a non-empty query,
\* and a task created paused and resumed since is on the calendar
C14_Witness ==
    /\ trim(query) # <<>>
    /\ \E i \in TaskIndexes :
          /\ tasks[i].status = "paused"
          /\ tasks[i].recurrence.type = "daily"
          /\ tasks[i] \in ToSet(filtered)
    /\ \E j \in TaskIndexes :
          /\ tasks[j].status = "active"
          /\ tasks[j].recurrence.type = "weekly"
          /\ OccDatesOf(tasks[j]) # {}

====
